---- MODULE Spec2Model ----
(***************************************************************************)
(* Model of exchange_factory.py: the four patched operations that          *)
(* ExchangeFactory._apply_patches binds to a ccxt.binance instance         *)
(* (fetch_balance, fetch_ticker, fetch_positions, create_order).           *)
(*                                                                         *)
(* Conventions                                                             *)
(*  - a Python value is a tagged tuple: <<"int", n>>, <<"str", s>>,        *)
(*    <<"none">>;                                                          *)
(*  - a Python dict whose order is observable (the payload that is        *)
(*    url-encoded) is the sequence of its <<key, value>> pairs in          *)
(*    insertion order, keys unique; a result mapping is a function on its  *)
(*    keys;                                                                *)
(*  - a float is the integer number of its tenths (2.5 is 25); every       *)
(*    amount of the model has at most one decimal, so the subtraction of   *)
(*    line 83 is exact;                                                    *)
(*  - a decoded JSON body is [kind |-> "object", v |-> function on the    *)
(*    keys] or [kind |-> "array", v |-> sequence]; an object nested in it  *)
(*    is a function on its keys;                                           *)
(*  - the HMAC-SHA256 hex digest is a symbolic string over the key and     *)
(*    the signed bytes, different for different keys or bytes;             *)
(*  - an invocation runs atomically between two suspension points (an      *)
(*    asyncio task is only descheduled at an await), and appends to its    *)
(*    log the events of the step in the order of the code.                 *)
(***************************************************************************)
EXTENDS Integers, Sequences, FiniteSets, TLC

VARIABLES
    apiKey,     \* self.apiKey, set by the factory
    secret,     \* self.secret, set by the factory
    markets,    \* self.markets of the ccxt instance (empty: not loaded)
    now,        \* time.time() in milliseconds
    inv         \* the invocations of the patched operations, one per slot

vars == <<apiKey, secret, markets, now, inv>>

\* ------------------------------------------------------------------ bounds

\* The clock runs from 1 to MaxClock.
MaxClock == 2
\* A positionRisk / account response carries at most MaxItems items.
MaxItems == 2

\* ------------------------------------------------------- program constants

recvWindow == 60000
HTTP_OK == 200

\* ------------------------------------------------------------ Python values

PyInt(n) == <<"int", n>>
PyStr(s) == <<"str", s>>
PyNone == <<"none">>

\* bool(v), as `if price` and `if not currency` take it.
Truthy(v) ==
    CASE v[1] = "none" -> FALSE
      [] v[1] = "int" -> v[2] # 0
      [] v[1] = "str" -> v[2] # ""

\* str(v)
Str(v) ==
    CASE v[1] = "none" -> "None"
      [] v[1] = "int" -> ToString(v[2])
      [] v[1] = "str" -> v[2]

\* s.upper(), on the strings callers pass as side and type.
Upper(s) ==
    CASE s = "limit" -> "LIMIT"
      [] s = "Limit" -> "LIMIT"
      [] s = "market" -> "MARKET"
      [] s = "buy" -> "BUY"
      [] s = "sell" -> "SELL"
      [] OTHER -> s

\* float(v), in tenths, on the decimal strings of the exchange's payloads and
\* on the integer default of asset.get(..., 0).
Float(v) ==
    IF v[1] = "int" THEN 10 * v[2]
    ELSE CASE v[2] = "100" -> 1000
           [] v[2] = "40" -> 400
           [] v[2] = "2.5" -> 25
           [] v[2] = "-1.0" -> -10
           [] v[2] = "0.000" -> 0
           [] v[2] = "10" -> 100
           [] v[2] = "0" -> 0

\* ------------------------------------------------------------- Python dicts

Keys(d) == {d[n][1] : n \in DOMAIN d}

HasKey(d, k) == k \in Keys(d)

\* d.get(k, default)
Get(d, k, default) ==
    IF HasKey(d, k)
    THEN d[CHOOSE n \in DOMAIN d : d[n][1] = k][2]
    ELSE default

\* d[k] = v
Put(d, k, v) ==
    IF HasKey(d, k)
    THEN [n \in DOMAIN d |-> IF d[n][1] = k THEN <<k, v>> ELSE d[n]]
    ELSE Append(d, <<k, v>>)

\* ------------------------------------------------------ signing and encoding

\* urllib.parse.quote_plus on the strings of the model: a space becomes '+',
\* letters, digits and '_.-' are kept.
QuotePlus(s) ==
    CASE s = "my id" -> "my+id"
      [] OTHER -> s

\* urlencode(d): the pairs key=value of the query string, in dict order.
urlencode(d) ==
    [n \in DOMAIN d |-> <<QuotePlus(d[n][1]), QuotePlus(Str(d[n][2]))>>]

\* The characters of a query string: k1=v1&k2=v2...
RECURSIVE Bytes(_)
Bytes(q) ==
    IF q = <<>> THEN ""
    ELSE LET last == q[Len(q)]
             head == SubSeq(q, 1, Len(q) - 1)
         IN  (IF head = <<>> THEN "" ELSE Bytes(head) \o "&")
                \o last[1] \o "=" \o last[2]

\* hmac.new(key, msg, sha256).hexdigest()
HmacSha256Hex(key, query_string) ==
    "hmac-sha256[" \o key \o "](" \o Bytes(query_string) \o ")"

\* f"...?{query_string}&signature={signature}" with query_string =
\* urlencode(payload) and signature its keyed digest (lines 59-67, 111-119 and
\* 168-175 are the same code).
\* (a variant that signs the query string before its last parameter is added)
SignedUrl_early(endpoint, key, payload) ==
    LET query_string == urlencode(payload)
        signature == HmacSha256Hex(key, SubSeq(query_string, 1, Len(query_string) - 1))
    IN  [endpoint |-> endpoint,
         query |-> Append(query_string, <<"signature", signature>>)]

SignedUrl(endpoint, key, payload) ==
    LET query_string == urlencode(payload)
        signature == HmacSha256Hex(key, query_string)
    IN  [endpoint |-> endpoint,
         query |-> Append(query_string, <<"signature", signature>>)]

\* payload = {'timestamp': timestamp, 'recvWindow': 60000}
AccountPayload(timestamp) ==
    <<<<"timestamp", PyInt(timestamp)>>, <<"recvWindow", PyInt(recvWindow)>>>>

\* headers = {'X-MBX-APIKEY': self.apiKey}
AuthHeaders(key) == <<<<"X-MBX-APIKEY", key>>>>

\* ------------------------------------------------------------ JSON payloads

\* obj.get(k, default) on a JSON object
JGet(obj, k, default) == IF k \in DOMAIN obj THEN obj[k] ELSE default

EmptyMap == [k \in {} |-> 0]

\* m[k] = v on a result mapping
MapPut(m, k, v) == [x \in DOMAIN m \cup {k} |-> IF x = k THEN v ELSE m[x]]

\* --------------------------------------------------- fetch_balance, the loop

\* One iteration of `for asset in data.get('assets', [])`.
BalanceStep(result, asset) ==
    LET currency == JGet(asset, "asset", PyNone)
    IN  IF ~Truthy(currency) THEN result
        ELSE LET total == Float(JGet(asset, "walletBalance", PyInt(0)))
                 free == Float(JGet(asset, "availableBalance", PyInt(0)))
                 r1 == MapPut(result, currency[2],
                              [free |-> free, used |-> total - free, total |-> total])
                 r2 == [r1 EXCEPT !["free"] = MapPut(@, currency[2], free)]
             IN  [r2 EXCEPT !["total"] = MapPut(@, currency[2], total)]

RECURSIVE BalanceLoop(_, _)
BalanceLoop(result, assets) ==
    IF assets = <<>> THEN result
    ELSE BalanceLoop(BalanceStep(result, Head(assets)), Tail(assets))

\* result = {'info': data, 'free': {}, 'used': {}, 'total': {}}, then the loop.
BalanceResult(data) ==
    BalanceLoop([info |-> data, free |-> EmptyMap, used |-> EmptyMap, total |-> EmptyMap],
                JGet(data, "assets", <<>>))

\* ------------------------------------------------- fetch_positions, the loop

\* (a variant that takes a flat position as long)
Side_nonneg(positionAmt) == IF positionAmt >= 0 THEN "long" ELSE "short"

\* 'long' if float(item['positionAmt']) > 0 else 'short'
Side(positionAmt) == IF positionAmt > 0 THEN "long" ELSE "short"

\* The dict appended for one item.
PositionRecord(item) ==
    [info |-> item,
     symbol |-> item.symbol,
     contracts |-> Float(item.positionAmt),
     unrealizedPnl |-> Float(item.unRealizedProfit),
     leverage |-> Float(item.leverage),
     side |-> Side(Float(item.positionAmt)),
     entryPrice |-> Float(item.entryPrice)]

\* result = []; for item in data: result.append({...})
PositionsResult(data) == [n \in DOMAIN data |-> PositionRecord(data[n])]

\* ------------------------------------------- create_order, the parameter set

\* order_params = {...}, then the `if price and type.upper() == 'LIMIT'` block.
RequiredParams(market, type, side, amount, price, params, timestamp) ==
    LET base == <<<<"symbol", PyStr(market.id)>>,
                  <<"side", PyStr(Upper(side))>>,
                  <<"type", PyStr(Upper(type))>>,
                  <<"quantity", PyStr(Str(amount))>>,
                  <<"timestamp", PyInt(timestamp)>>,
                  <<"recvWindow", PyInt(recvWindow)>>>>
    IN  IF Truthy(price) /\ Upper(type) = "LIMIT"
        THEN Put(Put(base, "price", PyStr(Str(price))),
                 "timeInForce", Get(params, "timeInForce", PyStr("GTC")))
        ELSE base

\* (a variant that merges as order_params.update(params) does)
RECURSIVE MergeParams_update(_, _)
MergeParams_update(order_params, params) ==
    IF params = <<>> THEN order_params
    ELSE MergeParams_update(Put(order_params, Head(params)[1], Head(params)[2]),
                            Tail(params))

\* for key, value in params.items(): if key not in order_params: ...
RECURSIVE MergeLoop(_, _)
MergeLoop(order_params, params) ==
    IF params = <<>> THEN order_params
    ELSE LET key == Head(params)[1]
             value == Head(params)[2]
         IN  MergeLoop(IF ~HasKey(order_params, key)
                       THEN Put(order_params, key, value)
                       ELSE order_params,
                       Tail(params))
MergeParams(order_params, params) == MergeLoop(order_params, params)

\* ------------------------------------------------------ the ccxt collaborator

\* self.markets before load_markets: None, which `not self.markets` takes as
\* the empty mapping.
NoMarkets == [s \in {} |-> 0]

\* self.markets after load_markets: unified symbol -> market.
MarketTable ==
    [s \in {"BTC/USDT:USDT", "ETH/USDT:USDT"} |->
        [id |-> IF s = "BTC/USDT:USDT" THEN "BTCUSDT" ELSE "ETHUSDT", symbol |-> s]]

NoMarket == [id |-> "", symbol |-> ""]

\* (a variant that never loads)
NeedsLoad_never(m) == FALSE

\* `if not self.markets`
NeedsLoad(m) == DOMAIN m = {}

\* self.parse_ticker(data, market) and self.parse_order(data, market): routines
\* of the library, kept as what they are applied to.
parse_ticker(data, market) == [parsed |-> "ticker", data |-> data, market |-> market]
parse_order(data, market) == [parsed |-> "order", data |-> data, market |-> market]

\* ------------------------------------------------------------- the endpoints

AccountEndpoint == "GET https://testnet.binancefuture.com/fapi/v2/account"
TickerEndpoint == "GET https://testnet.binancefuture.com/fapi/v1/ticker/24hr"
PositionRiskEndpoint == "GET https://testnet.binancefuture.com/fapi/v2/positionRisk"
OrderEndpoint == "POST https://testnet.binancefuture.com/fapi/v1/order"

\* (a variant that takes only the 4xx statuses as failures)
StatusFailed_clientOnly(status) == status \in 400..499

\* `if response.status != 200`
StatusFailed(status) == status # HTTP_OK

\* The text before {data} in the message of the exception raised.
FailPrefix(op) ==
    CASE op = "fetch_balance" -> "Balance fetch failed: "
      [] op = "fetch_ticker" -> "Ticker fetch failed: "
      [] op = "fetch_positions" -> "Positions fetch failed: "
      [] op = "create_order" -> "Order failed: "

\* -------------------------------------------------------------- invocations

Slots == {1, 2}

NoArgs ==
    [symbol |-> "", type |-> "", side |-> "", amount |-> PyNone, price |-> PyNone,
     params |-> <<>>, symbols |-> PyNone]

None == [kind |-> "none"]

\* An invocation that has not run a statement yet.
NewInvocation(op, args) ==
    [op |-> op, args |-> args, pc |-> "start",
     startLoaded |-> FALSE,   \* self.markets was loaded when the call started
     readsMarkets |-> FALSE,  \* it read self.markets
     sharedRead |-> FALSE,    \* it read markets written by an invocation in flight
     wrote |-> FALSE,         \* its load_markets wrote self.markets
     log |-> <<>>,            \* its events, in order
     market |-> NoMarket, required |-> <<>>, order_params |-> <<>>,
     timestamp |-> 0,
     session |-> "none", nreq |-> 0, request |-> None,
     response |-> None, result |-> None, error |-> None, printed |-> None]

IdleInvocation == [NewInvocation("none", NoArgs) EXCEPT !.pc = "idle"]

Log(r, event) == [r EXCEPT !.log = Append(@, event)]

\* (a variant that opens the session without `async with`)
ExitSession_leak(r) == r

\* Leaving `async with aiohttp.ClientSession() as session` (and the inner
\* `async with session.get(...)`), by return or by exception.
ExitSession(r) ==
    IF r.session = "open"
    THEN [Log(r, "session_close") EXCEPT !.session = "closed"]
    ELSE r

\* An exception leaves the coroutine.
Raise(r, kind, prefix, body) ==
    [ExitSession(Log(r, "raise")) EXCEPT
        !.pc = "raised",
        !.error = [kind |-> kind, prefix |-> prefix, body |-> body]]

\* `return value`
Return(r, value) ==
    [ExitSession(Log(r, "return")) EXCEPT
        !.pc = "returned",
        !.result = [kind |-> "value", v |-> value]]

\* async with aiohttp.ClientSession() as session:
\*     async with session.get/post(url, headers=..., ssl=False) as response:
\* up to the suspension on the response.
Send(r, url, headers) ==
    [Log(Log(r, "session_open"), "request") EXCEPT
        !.pc = "awaiting",
        !.session = "open",
        !.nreq = @ + 1,
        !.request = [kind |-> "request", url |-> url, headers |-> headers, ssl |-> FALSE]]

\* True when an invocation other than i that is still in flight wrote the
\* self.markets that i is reading.
ConcurrentWriter(i) ==
    \E j \in Slots \ {i} : inv[j].wrote /\ inv[j].pc \in {"loading", "awaiting"}

\* fetch_ticker from `market = self.market(symbol)` to the suspension on the
\* response; mk is self.markets.
\* (a variant that resolves the symbol after the request is on its way)
TickerRequest_late(r, mk) ==
    LET market == IF r.args.symbol \in DOMAIN mk THEN mk[r.args.symbol]
                  ELSE [id |-> r.args.symbol, symbol |-> r.args.symbol]
    IN  Log(Send([r EXCEPT !.market = market],
                 [endpoint |-> TickerEndpoint, query |-> <<<<"symbol", market.id>>>>],
                 <<>>), "market")

TickerRequest(r, mk) ==
    LET r1 == Log(r, "market")
    IN  IF r.args.symbol \notin DOMAIN mk
        THEN Raise(r1, "BadSymbol", "", None)
        ELSE LET market == mk[r.args.symbol]
             IN  Send([r1 EXCEPT !.market = market],
                      [endpoint |-> TickerEndpoint, query |-> <<<<"symbol", market.id>>>>],
                      <<>>)

\* create_order from `market = self.market(symbol)` to the suspension on the
\* response.
OrderRequest(r, mk, timestamp, key, sec) ==
    LET r1 == Log(r, "market")
    IN  IF r.args.symbol \notin DOMAIN mk
        THEN Raise(r1, "BadSymbol", "", None)
        ELSE LET market == mk[r.args.symbol]
                 a == r.args
                 required == RequiredParams(market, a.type, a.side, a.amount, a.price,
                                            a.params, timestamp)
                 order_params == MergeParams(required, a.params)
             IN  Send([r1 EXCEPT !.market = market, !.timestamp = timestamp,
                                 !.required = required, !.order_params = order_params],
                      SignedUrl(OrderEndpoint, sec, order_params),
                      AuthHeaders(key))

\* The code after `if not self.markets: await self.load_markets()`.
AfterMarkets(r, mk) ==
    IF r.op = "fetch_ticker"
    THEN TickerRequest(r, mk)
    ELSE OrderRequest(r, mk, now, apiKey, secret)

\* The first two lines of fetch_ticker and create_order.
EnsureMarkets(i, r) ==
    LET r1 == [r EXCEPT !.startLoaded = (markets # NoMarkets),
                        !.readsMarkets = TRUE,
                        !.sharedRead = (markets # NoMarkets) /\ ConcurrentWriter(i)]
    IN  IF NeedsLoad(markets)
        THEN [Log(r1, "load_markets") EXCEPT !.pc = "loading"]
        ELSE AfterMarkets(r1, markets)

Idle(i) == inv[i].pc \in {"idle", "returned", "raised"}

\* ------------------------------------------------------------------ actions

patched_fetch_balance(i) ==
    /\ Idle(i)
    /\ inv' = [inv EXCEPT ![i] =
                 Send([NewInvocation("fetch_balance", NoArgs) EXCEPT !.timestamp = now],
                      SignedUrl(AccountEndpoint, secret, AccountPayload(now)),
                      AuthHeaders(apiKey))]
    /\ UNCHANGED <<apiKey, secret, markets, now>>

\* (a variant that applies the `symbols` filter through self.markets)
patched_fetch_positions_filtering(i, symbols) ==
    /\ Idle(i)
    /\ inv' = [inv EXCEPT ![i] =
                 Send([NewInvocation("fetch_positions", [NoArgs EXCEPT !.symbols = symbols])
                          EXCEPT !.timestamp = now,
                                 !.readsMarkets = symbols # PyNone,
                                 !.sharedRead = symbols # PyNone /\ ConcurrentWriter(i)],
                      SignedUrl(PositionRiskEndpoint, secret, AccountPayload(now)),
                      AuthHeaders(apiKey))]
    /\ UNCHANGED <<apiKey, secret, markets, now>>

patched_fetch_positions(i, symbols) ==
    /\ Idle(i)
    /\ inv' = [inv EXCEPT ![i] =
                 Send([NewInvocation("fetch_positions", [NoArgs EXCEPT !.symbols = symbols])
                          EXCEPT !.timestamp = now],
                      SignedUrl(PositionRiskEndpoint, secret, AccountPayload(now)),
                      AuthHeaders(apiKey))]
    /\ UNCHANGED <<apiKey, secret, markets, now>>

patched_fetch_ticker(i, symbol) ==
    /\ Idle(i)
    /\ inv' = [inv EXCEPT ![i] =
                 EnsureMarkets(i, NewInvocation("fetch_ticker",
                                                [NoArgs EXCEPT !.symbol = symbol]))]
    /\ UNCHANGED <<apiKey, secret, markets, now>>

patched_create_order(i, args) ==
    /\ Idle(i)
    /\ inv' = [inv EXCEPT ![i] = EnsureMarkets(i, NewInvocation("create_order", args))]
    /\ UNCHANGED <<apiKey, secret, markets, now>>

\* `await self.load_markets()` completes: the library has filled self.markets.
load_markets_done(i) ==
    /\ inv[i].pc = "loading"
    /\ markets' = MarketTable
    /\ inv' = [inv EXCEPT ![i] =
                 AfterMarkets([Log(inv[i], "markets_loaded") EXCEPT
                                   !.wrote = (markets = NoMarkets),
                                   !.sharedRead = (markets # NoMarkets) /\ ConcurrentWriter(i)],
                              MarketTable)]
    /\ UNCHANGED <<apiKey, secret, now>>

\* `await self.load_markets()` raises (the library could not fetch the markets).
load_markets_fail(i) ==
    /\ inv[i].pc = "loading"
    /\ inv' = [inv EXCEPT ![i] = Raise(inv[i], "NetworkError", "", None)]
    /\ UNCHANGED <<apiKey, secret, markets, now>>

\* `await self.load_markets()` on the synchronous client that `import ccxt`
\* gives: load_markets() runs to its end and returns the dict of markets, and
\* awaiting that dict raises TypeError.
load_markets_not_awaitable(i) ==
    /\ inv[i].pc = "loading"
    /\ markets' = MarketTable
    /\ inv' = [inv EXCEPT ![i] =
                 Raise([Log(inv[i], "markets_loaded") EXCEPT !.wrote = (markets = NoMarkets)],
                       "TypeError", "", None)]
    /\ UNCHANGED <<apiKey, secret, now>>

\* The caller loads the markets itself (example.py, `await exchange.load_markets()`).
caller_load_markets ==
    /\ markets = NoMarkets
    /\ markets' = MarketTable
    /\ UNCHANGED <<apiKey, secret, now, inv>>

\* session.get / session.post raises: no response arrives.
connect_fail(i) ==
    /\ inv[i].pc = "awaiting"
    /\ inv' = [inv EXCEPT ![i] = Raise(inv[i], "ClientError", "", None)]
    /\ UNCHANGED <<apiKey, secret, markets, now>>

\* The code after `if response.status != 200: raise` of each operation.
Success(r, data) ==
    CASE r.op = "fetch_balance" ->
            IF data.kind # "object"
            THEN Raise(r, "AttributeError", "", None)
            ELSE Return(r, BalanceResult(data.v))
      [] r.op = "fetch_ticker" ->
            Return(Log(r, "parse_ticker"), parse_ticker(data, r.market))
      [] r.op = "fetch_positions" ->
            IF data.kind # "array"
            THEN Raise(r, "TypeError", "", None)
            ELSE Return(r, PositionsResult(data.v))
      [] r.op = "create_order" ->
            IF data.kind # "object"
            THEN Raise(r, "AttributeError", "", None)
            ELSE Return([Log(Log(r, "print"), "parse_order") EXCEPT
                            !.printed = [kind |-> "ack",
                                         orderId |-> JGet(data.v, "orderId", PyNone)]],
                        parse_order(data, r.market))

\* The response arrives: `data = await response.json()`, the status check, and
\* the rest of the operation.
respond(i, status, body) ==
    /\ inv[i].pc = "awaiting"
    /\ LET r == [Log(inv[i], "response") EXCEPT
                    !.response = [kind |-> "response", status |-> status, body |-> body]]
       IN  inv' = [inv EXCEPT ![i] =
                     IF body.kind = "notjson"
                     THEN Raise(r, "ContentTypeError", "", None)
                     ELSE IF StatusFailed(status)
                          THEN Raise(r, "Exception", FailPrefix(r.op), body)
                          ELSE Success(r, body)]
    /\ UNCHANGED <<apiKey, secret, markets, now>>

\* time.time() advances.
tick ==
    /\ now < MaxClock
    /\ now' = now + 1
    /\ UNCHANGED <<apiKey, secret, markets, inv>>

\* ------------------------------------------------------------------- inputs

ApiKeys == {"key1"}
Secrets == {"sec1", "sec2"}

\* One symbol the market table knows, one it does not.
Symbols == {"BTC/USDT:USDT", "NOPE/USDT"}

\* The `symbols` argument of fetch_positions.
SymbolsArgs == {PyNone, PyStr("BTC/USDT:USDT")}

ExtraParams ==
    {<<>>,
     <<<<"timeInForce", PyStr("IOC")>>>>,
     <<<<"timestamp", PyInt(999)>>, <<"reduceOnly", PyStr("true")>>>>,
     <<<<"newClientOrderId", PyStr("my id")>>, <<"price", PyStr("7")>>>>}

OrderArgs ==
    [symbol : Symbols, type : {"limit", "MARKET"}, side : {"buy"},
     amount : {PyInt(1)}, price : {PyNone, PyInt(0), PyInt(5)},
     params : ExtraParams, symbols : {PyNone}]

SmallOrderArgs ==
    [symbol : {"BTC/USDT:USDT"}, type : {"limit"}, side : {"buy"},
     amount : {PyInt(1)}, price : {PyInt(5)},
     params : {<<>>}, symbols : {PyNone}]

Statuses == {200, 400, 503}

NotJson == [kind |-> "notjson"]

ErrorBody ==
    [kind |-> "object",
     v |-> [code |-> PyInt(-2015), msg |-> PyStr("Invalid API-key, IP, or permissions")]]

\* Sequences of at most n elements of S.
RECURSIVE SeqsUpTo(_, _)
SeqsUpTo(S, n) ==
    IF n = 0 THEN {<<>>}
    ELSE LET shorter == SeqsUpTo(S, n - 1)
         IN  shorter \cup {Append(q, x) : q \in shorter, x \in S}

AssetName(a) == IF "asset" \in DOMAIN a THEN a.asset ELSE PyNone

\* The entries of `assets` in an account payload: an ordinary one, one whose
\* availableBalance exceeds its walletBalance, one with an empty name, and one
\* without balances.
AssetPool ==
    {[asset |-> PyStr("USDT"), walletBalance |-> PyStr("100"), availableBalance |-> PyStr("40")],
     [asset |-> PyStr("BNB"), walletBalance |-> PyStr("0.000"), availableBalance |-> PyStr("2.5")],
     [asset |-> PyStr(""), walletBalance |-> PyStr("10"), availableBalance |-> PyStr("10")],
     [asset |-> PyStr("BTC")]}

\* The exchange lists an asset once.
AssetLists ==
    {l \in SeqsUpTo(AssetPool, MaxItems) :
        \A m, n \in DOMAIN l : m # n => AssetName(l[m]) # AssetName(l[n])}

BalanceBodies ==
    {[kind |-> "object", v |-> [assets |-> l]] : l \in AssetLists}
        \cup {[kind |-> "object", v |-> [totalWalletBalance |-> PyStr("100")]]}

PositionItem(symbol, positionAmt) ==
    [symbol |-> PyStr(symbol), positionAmt |-> PyStr(positionAmt),
     unRealizedProfit |-> PyStr("-1.0"), leverage |-> PyStr("10"),
     entryPrice |-> PyStr("100")]

PositionPool ==
    {PositionItem("BTCUSDT", "2.5"), PositionItem("ETHUSDT", "-1.0"),
     PositionItem("XRPUSDT", "0.000")}

PositionBodies == {[kind |-> "array", v |-> l] : l \in SeqsUpTo(PositionPool, MaxItems)}

TickerBodies ==
    {[kind |-> "object", v |-> [symbol |-> PyStr("BTCUSDT"), lastPrice |-> PyStr("100")]]}

OrderBodies ==
    {[kind |-> "object", v |-> [orderId |-> PyInt(7), status |-> PyStr("NEW")]],
     [kind |-> "object", v |-> [status |-> PyStr("NEW")]]}

\* What the exchange may answer to an operation's request with a status.
Bodies(op, status) ==
    {NotJson} \cup
    IF status # 200 THEN {ErrorBody}
    ELSE CASE op = "fetch_balance" -> BalanceBodies
           [] op = "fetch_ticker" -> TickerBodies
           [] op = "fetch_positions" -> PositionBodies
           [] op = "create_order" -> OrderBodies
           [] OTHER -> {}

SmallBodies(op, status) ==
    IF status # 200 THEN {ErrorBody}
    ELSE CASE op = "fetch_balance" -> {[kind |-> "object", v |-> [assets |-> <<>>]]}
           [] op = "fetch_ticker" -> TickerBodies
           [] op = "fetch_positions" -> {[kind |-> "array", v |-> <<>>]}
           [] op = "create_order" -> {[kind |-> "object", v |-> [orderId |-> PyInt(7)]]}
           [] OTHER -> {}

\* ------------------------------------------------------------ specifications

\* After ExchangeFactory.create_binance_demo(api_key, secret).
Init ==
    /\ apiKey \in ApiKeys
    /\ secret \in Secrets
    /\ markets = NoMarkets
    /\ now = 1
    /\ inv = [i \in Slots |-> IdleInvocation]

\* One caller that awaits each operation before it calls the next.
Next ==
    \/ patched_fetch_balance(1)
    \/ \E symbols \in SymbolsArgs : patched_fetch_positions(1, symbols)
    \/ \E symbol \in Symbols : patched_fetch_ticker(1, symbol)
    \/ \E args \in OrderArgs : patched_create_order(1, args)
    \/ load_markets_done(1)
    \/ load_markets_fail(1)
    \/ load_markets_not_awaitable(1)
    \/ caller_load_markets
    \/ connect_fail(1)
    \/ \E status \in Statuses : \E body \in Bodies(inv[1].op, status) :
            respond(1, status, body)
    \/ tick

Spec == Init /\ [][Next]_vars

\* Two tasks of one event loop that call the operations on the same client.
NextConc ==
    \/ \E i \in Slots : patched_fetch_balance(i)
    \/ \E i \in Slots : \E symbols \in SymbolsArgs : patched_fetch_positions(i, symbols)
    \/ \E i \in Slots : \E symbol \in Symbols : patched_fetch_ticker(i, symbol)
    \/ \E i \in Slots : \E args \in SmallOrderArgs : patched_create_order(i, args)
    \/ \E i \in Slots : load_markets_done(i)
    \/ \E i \in Slots : load_markets_fail(i)
    \/ \E i \in Slots : load_markets_not_awaitable(i)
    \/ caller_load_markets
    \/ \E i \in Slots : connect_fail(i)
    \/ \E i \in Slots : \E status \in {200, 400} :
            \E body \in SmallBodies(inv[i].op, status) : respond(i, status, body)
    \/ tick

SpecConc == Init /\ [][NextConc]_vars

\* ------------------------------------------------------------------- claims

Events(r) == {r.log[n] : n \in DOMAIN r.log}

\* How many times an event is in a log.
Count(r, event) == Cardinality({n \in DOMAIN r.log : r.log[n] = event})

\* The position of the first occurrence of an event that is in the log.
Index(r, event) == CHOOSE n \in DOMAIN r.log :
                      r.log[n] = event /\ \A m \in 1..(n - 1) : r.log[m] # event

Finished(r) == r.pc \in {"returned", "raised"}

Answered(r) == r.response.kind = "response"

Sent(r) == r.request.kind = "request"

NoOutcome(r) ==
    /\ r.result = None
    /\ r.printed = None
    /\ Events(r) \cap {"parse_ticker", "parse_order", "print", "return"} = {}

\* C1 as stated: whenever the exchange answers with a status other than 200,
\* the operation ends in the API error that carries the decoded response body
\* and produces no result, no parse_ticker / parse_order call and no
\* acknowledgment.
C1_AsStated ==
    \A i \in Slots :
        LET r == inv[i]
        IN  (Answered(r) /\ r.response.status # 200) =>
                /\ r.pc = "raised"
                /\ r.error.kind = "Exception"
                /\ r.error.prefix = FailPrefix(r.op)
                /\ r.error.body = r.response.body
                /\ r.response.body.kind # "notjson"
                /\ NoOutcome(r)

\* C1 amended: whenever the exchange answers with a status other than 200,
\* the operation raises and produces no result, no parse_ticker / parse_order
\* call and no acknowledgment; the exception is the API error carrying the
\* decoded body when the body decodes as JSON, and the decoding error of
\* `await response.json()` when it does not.
C1_ErrorPropagation ==
    \A i \in Slots :
        LET r == inv[i]
        IN  (Answered(r) /\ r.response.status # 200) =>
                /\ r.pc = "raised"
                /\ NoOutcome(r)
                /\ IF r.response.body.kind # "notjson"
                   THEN /\ r.error.kind = "Exception"
                        /\ r.error.prefix = FailPrefix(r.op)
                        /\ r.error.body = r.response.body
                   ELSE r.error.kind = "ContentTypeError"

C1_Witness ==
    /\ inv[1].op = "create_order"
    /\ Answered(inv[1])
    /\ inv[1].response.status = 503
    /\ inv[1].response.body = ErrorBody
    /\ inv[1].error.kind = "Exception"

\* C2 as stated: on a 200 response fetch_balance returns a mapping where, for
\* every asset with a non-empty name, the per-asset entry holds free =
\* availableBalance, total = walletBalance, used = walletBalance -
\* availableBalance, each of the sub-mappings 'free', 'used' and 'total' has
\* an entry for the asset with the value of the per-asset entry, and the raw
\* payload is under 'info'.
C2_AsStated ==
    \A i \in Slots :
        LET r == inv[i]
        IN  (r.op = "fetch_balance" /\ r.pc = "returned") =>
                LET data == r.response.body.v
                    res == r.result.v
                    assets == JGet(data, "assets", <<>>)
                IN  /\ res.info = data
                    /\ \A n \in DOMAIN assets :
                         LET a == assets[n]
                             name == JGet(a, "asset", PyNone)
                             wallet == Float(JGet(a, "walletBalance", PyInt(0)))
                             available == Float(JGet(a, "availableBalance", PyInt(0)))
                         IN  Truthy(name) =>
                               /\ name[2] \in DOMAIN res
                               /\ res[name[2]] = [free |-> available,
                                                  used |-> wallet - available,
                                                  total |-> wallet]
                               /\ \A part \in {"free", "used", "total"} :
                                     /\ name[2] \in DOMAIN res[part]
                                     /\ res[part][name[2]] = res[name[2]][part]

\* C3: the caller's extra parameters never override a key set by the required
\* fields, every other extra key is added with the caller's value, and no
\* other key is added or removed; the merged set is what is sent.
C3_FirstWriteWins ==
    \A i \in Slots :
        LET r == inv[i]
        IN  (r.op = "create_order" /\ Sent(r)) =>
                LET required == r.required
                    extra == r.args.params
                    final == r.order_params
                    query == r.request.url.query
                IN  /\ {"symbol", "side", "type", "quantity", "timestamp", "recvWindow"}
                          \subseteq Keys(required)
                    /\ Get(final, "symbol", PyNone) = PyStr(r.market.id)
                    /\ Get(final, "side", PyNone) = PyStr(Upper(r.args.side))
                    /\ Get(final, "type", PyNone) = PyStr(Upper(r.args.type))
                    /\ Get(final, "quantity", PyNone) = PyStr(Str(r.args.amount))
                    /\ Get(final, "timestamp", PyNone) = PyInt(r.timestamp)
                    /\ Get(final, "recvWindow", PyNone) = PyInt(recvWindow)
                    /\ \A k \in Keys(required) :
                          Get(final, k, PyNone) = Get(required, k, PyNone)
                    /\ \A k \in Keys(extra) \ Keys(required) :
                          Get(final, k, PyNone) = Get(extra, k, PyNone)
                    /\ Keys(final) = Keys(required) \cup Keys(extra)
                    /\ Len(final) = Cardinality(Keys(final))
                    /\ SubSeq(query, 1, Len(query) - 1) = urlencode(final)

C3_Witness ==
    /\ inv[1].op = "create_order"
    /\ Sent(inv[1])
    /\ inv[1].timestamp # 999
    /\ Get(inv[1].args.params, "timestamp", PyNone) = PyInt(999)
    /\ Get(inv[1].order_params, "reduceOnly", PyNone) = PyStr("true")

\* C4 as stated: the parameter set sent contains 'price' (stringified) and
\* 'timeInForce' (the caller's, else GTC) if a price is supplied and the
\* upper-cased type is LIMIT; otherwise the required fields add neither.
C4_AsStated ==
    \A i \in Slots :
        LET r == inv[i]
        IN  (r.op = "create_order" /\ Sent(r)) =>
                LET supplied == r.args.price # PyNone
                    limit == Upper(r.args.type) = "LIMIT"
                IN  IF supplied /\ limit
                    THEN /\ Get(r.order_params, "price", PyNone) = PyStr(Str(r.args.price))
                         /\ Get(r.order_params, "timeInForce", PyNone)
                               = Get(r.args.params, "timeInForce", PyStr("GTC"))
                    ELSE Keys(r.required) \cap {"price", "timeInForce"} = {}

C6_OneRecordPerItem ==
    \A i \in Slots :
        LET r == inv[i]
        IN  (r.op = "fetch_positions" /\ Answered(r) /\ r.response.status = 200
                /\ r.response.body.kind = "array") =>
                LET data == r.response.body.v
                    res == r.result.v
                IN  /\ r.pc = "returned"
                    /\ Len(res) = Len(data)
                    /\ \A n \in DOMAIN data :
                          /\ res[n].info = data[n]
                          /\ res[n].symbol = data[n].symbol
                          /\ res[n].contracts = Float(data[n].positionAmt)
                          /\ Float(data[n].positionAmt) > 0 => res[n].side = "long"
                          /\ Float(data[n].positionAmt) < 0 => res[n].side = "short"
                          /\ Float(data[n].positionAmt) = 0 => res[n].side = "short"

C6_Witness ==
    /\ inv[1].op = "fetch_positions"
    /\ inv[1].pc = "returned"
    /\ inv[1].args.symbols = PyStr("BTC/USDT:USDT")
    /\ Len(inv[1].result.v) = 2
    /\ inv[1].result.v[1].contracts = 0
    /\ inv[1].result.v[1].side = "short"
    /\ inv[1].result.v[2].side = "long"

\* C7 as stated: no invocation reads client state that another invocation in
\* flight has written.
C7_AsStated == \A i \in Slots : ~inv[i].sharedRead

\* What fetch_balance and fetch_positions send: a function of their own
\* timestamp and of the credentials.
OwnAccountRequest(r) ==
    [kind |-> "request",
     url |-> [endpoint |-> IF r.op = "fetch_balance" THEN AccountEndpoint
                           ELSE PositionRiskEndpoint,
              query |-> <<<<"timestamp", ToString(r.timestamp)>>,
                          <<"recvWindow", "60000">>,
                          <<"signature",
                            HmacSha256Hex(secret, <<<<"timestamp", ToString(r.timestamp)>>,
                                                    <<"recvWindow", "60000">>>>)>>>>],
     headers |-> <<<<"X-MBX-APIKEY", apiKey>>>>,
     ssl |-> FALSE]

C7_AccountOpsIndependent ==
    \A i \in Slots :
        LET r == inv[i]
        IN  /\ r.op \in {"fetch_balance", "fetch_positions"} =>
                /\ ~r.readsMarkets /\ ~r.wrote /\ ~r.sharedRead
                /\ r.pc # "loading"
                /\ Sent(r) => r.request = OwnAccountRequest(r)
            /\ (r.sharedRead \/ r.wrote) =>
                r.op \in {"fetch_ticker", "create_order"} /\ r.readsMarkets

C7_OnlyMarketsWritten ==
    /\ apiKey' = apiKey
    /\ secret' = secret
    /\ markets' # markets =>
          /\ markets = NoMarkets
          /\ markets' = MarketTable
          /\ \/ inv' = inv
             \/ \E i \in Slots :
                   /\ inv[i].pc = "loading"
                   /\ inv[i].op \in {"fetch_ticker", "create_order"}
                   /\ ~inv[i].startLoaded
                   /\ inv'[i].wrote
                   /\ \A j \in Slots \ {i} : inv'[j] = inv[j]

\* C7 amended: the credentials are never written, and fetch_balance and
\* fetch_positions neither read nor write mutable client state, so what they
\* send depends on their own timestamp only. The market cache self.markets is
\* shared mutable state: it is written, once and from unloaded to loaded, by
\* load_markets on behalf of a fetch_ticker / create_order invocation that
\* found it unloaded (or by the caller), and only fetch_ticker / create_order
\* invocations read it.
C7_SharedStateIsMarketsOnly ==
    [](C7_AccountOpsIndependent) /\ [][C7_OnlyMarketsWritten]_vars

C7_Witness ==
    /\ inv[1].op = "create_order" /\ inv[1].wrote /\ inv[1].pc = "awaiting"
    /\ inv[2].op = "fetch_balance" /\ inv[2].pc = "returned"
    /\ inv[2].request = OwnAccountRequest(inv[2])

\* C8: an invocation sends at most one request, through a session it opened
\* itself before, sends nothing after an exception, and has closed the
\* session when it returns or raises.
C8_OneRequestSessionClosed ==
    \A i \in Slots :
        LET r == inv[i]
        IN  /\ r.nreq <= 1
            /\ Count(r, "request") = r.nreq
            /\ Count(r, "session_open") <= 1
            /\ Count(r, "response") <= 1
            /\ Sent(r) <=> r.nreq = 1
            /\ Sent(r) =>
                  /\ "session_open" \in Events(r)
                  /\ Index(r, "session_open") < Index(r, "request")
            /\ r.pc = "awaiting" => r.session = "open"
            /\ Finished(r) =>
                  /\ r.session # "open"
                  /\ "session_open" \in Events(r) =>
                        /\ r.session = "closed"
                        /\ Count(r, "session_close") = 1
                        /\ Index(r, "session_open") < Index(r, "session_close")
            /\ (r.pc = "raised" /\ Sent(r)) => Index(r, "request") < Index(r, "raise")

C8_Witness ==
    /\ inv[1].pc = "raised" /\ Answered(inv[1]) /\ inv[1].response.status = 400
    /\ inv[1].session = "closed" /\ inv[1].nreq = 1
    /\ inv[2].pc = "returned" /\ inv[2].session = "closed" /\ inv[2].nreq = 1

\* C9: fetch_ticker and create_order trigger load_markets if and only if the
\* markets were not loaded when the invocation started, and a triggered load
\* has completed before the symbol is resolved and before the request is sent.
C9_LazyLoadBeforeUse ==
    \A i \in Slots :
        LET r == inv[i]
        IN  r.op \in {"fetch_ticker", "create_order"} =>
                /\ "load_markets" \in Events(r) <=> ~r.startLoaded
                /\ Count(r, "load_markets") <= 1
                /\ r.startLoaded => "markets_loaded" \notin Events(r)
                /\ r.pc = "loading" => Events(r) = {"load_markets"}
                /\ \A e \in {"market", "session_open", "request"} :
                      ("load_markets" \in Events(r) /\ e \in Events(r)) =>
                          /\ "markets_loaded" \in Events(r)
                          /\ Index(r, "load_markets") < Index(r, "markets_loaded")
                          /\ Index(r, "markets_loaded") < Index(r, e)
                /\ "request" \in Events(r) =>
                      /\ "market" \in Events(r)
                      /\ Index(r, "market") < Index(r, "request")

C9_Witness ==
    /\ inv[1].op = "create_order"
    /\ ~inv[1].startLoaded
    /\ inv[1].log = <<"load_markets", "markets_loaded", "market", "session_open", "request">>

Range(q) == {q[n] : n \in DOMAIN q}

\* C10: the signature sent by fetch_balance, fetch_positions and create_order
\* is the digest, keyed by the client's secret, of the query string sent
\* before it: all the parameters sent, timestamp and recvWindow among them
\* (and for create_order the merged extra parameters), the signature coming
\* last; fetch_ticker sends no signature and no API-key header.
C10_SignatureCoversQuery ==
    \A i \in Slots :
        LET r == inv[i]
        IN  Sent(r) =>
              LET query == r.request.url.query
                  signed == SubSeq(query, 1, Len(query) - 1)
              IN  IF r.op = "fetch_ticker"
                  THEN /\ r.request.headers = <<>>
                       /\ "signature" \notin Keys(query)
                  ELSE /\ query[Len(query)] = <<"signature", HmacSha256Hex(secret, signed)>>
                       /\ "signature" \notin Keys(signed)
                       /\ <<"timestamp", ToString(r.timestamp)>> \in Range(signed)
                       /\ <<"recvWindow", "60000">> \in Range(signed)
                       /\ r.request.headers = <<<<"X-MBX-APIKEY", apiKey>>>>
                       /\ r.op = "create_order" =>
                             /\ Len(signed) = Len(r.order_params)
                             /\ \A k \in Keys(r.args.params) \cup
                                    {"symbol", "side", "type", "quantity"} :
                                   QuotePlus(k) \in Keys(signed)
                             /\ \A n \in DOMAIN r.args.params :
                                   LET k == r.args.params[n][1]
                                   IN  ~HasKey(r.required, k) =>
                                          <<QuotePlus(k),
                                            QuotePlus(Str(r.args.params[n][2]))>>
                                             \in Range(signed)

C10_Witness ==
    /\ inv[1].op = "create_order"
    /\ Sent(inv[1])
    /\ <<"newClientOrderId", "my+id">> \in Range(inv[1].request.url.query)
    /\ Len(inv[1].request.url.query) = 10

====
